---- MODULE Spec2Model ----
(***************************************************************************)
(* The recruitment dashboard script (dashboard.py) as a state machine.     *)
(* One step of the machine is one run of the whole script, which the UI    *)
(* framework starts on every widget interaction, or a change of the local  *)
(* file datafile.xlsx between two runs.                                    *)
(*                                                                         *)
(* A cell is a record [k, s, n]: k is its kind ("str" text, "num" number,  *)
(* "date" timestamp, "nan" missing), s its text and n its number.  Dates   *)
(* are month numbers.  A table is [cols, rows]: the set of column names    *)
(* and the sequence of rows, each a function from cols to cells.           *)
(*                                                                         *)
(* Data model: the category columns hold text or blanks, the two sum       *)
(* columns numbers or blanks, Broad Status text, the TAT columns numbers,  *)
(* text or blanks, the date columns dates, text or blanks.                 *)
(***************************************************************************)
EXTENDS Integers, Sequences, FiniteSets

VARIABLES
    disk,         \* the local file datafile.xlsx, or None when there is none
    uploaded,     \* the file_uploader widget's value, or None
    cache,        \* st.cache_data's entries for load_data: [key, val]
    tick,         \* flips on every run of the script
    parsed,       \* the latest run called pd.read_excel
    outcome,      \* "none" (no run yet), "halted" (st.stop), "raised", "done"
    df,           \* the latest run's loaded table
    sel,          \* the latest run's sidebar selection
    filtered_df,  \* the latest run's filtered table
    out,          \* the latest run's metrics, chart data and export
    snap          \* an observer's record of one earlier run

vars == <<disk, uploaded, cache, tick, parsed, outcome, df, sel, filtered_df, out, snap>>

----------------------------------------------------------------------------
(* Cells *)

Str(s)  == [k |-> "str",  s |-> s,  n |-> 0]
Num(n)  == [k |-> "num",  s |-> "", n |-> n]
Date(m) == [k |-> "date", s |-> "", n |-> m]
NaN     == [k |-> "nan",  s |-> "", n |-> 0]

isna(x)  == x.k = "nan"
notna(x) == x.k # "nan"

(* Column names (the embedded line breaks of the headers are left out) *)
BU         == "Business Unit"
DEPT       == "Department"
LOC        == "Location"
STATUS     == "Broad Status"
TAT        == "Current TAT (Days since Req approved)"
JTAT       == "Joining TAT (Req Assigned to Joining)"
PROFILES   == "Total nos of profiles shared"
INTERVIEWED == "Interviewed"
GENDER     == "Gender"
SOURCE     == "Candidate Source"
NEWREPL    == "New/ Replacement"
REQDATE    == "Req Date (DD-MMM-YY)"

date_columns == {REQDATE, "Req Approved on (DD-MMM-YY)", "Requisition Assigned",
                 "DOJ (DD-MMM-YY)"}

FilterColumns == {BU, DEPT, LOC}

All   == Str("All")
Unset == [k |-> "unset", s |-> "", n |-> 0]

----------------------------------------------------------------------------
(* Sequences *)

Indices(xs) == [i \in 1..Len(xs) |-> i]

SeqsUpTo(S, n) == UNION {[1..m -> S] : m \in 0..n}

Min(S) == CHOOSE x \in S : \A y \in S : x <= y
Max(S) == CHOOSE x \in S : \A y \in S : x >= y

RECURSIVE SumSeq(_)
SumSeq(xs) == IF xs = <<>> THEN 0 ELSE Head(xs) + SumSeq(Tail(xs))

----------------------------------------------------------------------------
(* Files and tables *)

NoTable == [cols |-> {}, rows |-> <<>>]

None == [ok |-> FALSE, name |-> "", sheet |-> NoTable]

\* A spreadsheet whose first sheet is `sheet`.
Xlsx(name, sheet) == [ok |-> TRUE, name |-> name, sheet |-> sheet]

\* A file that is no spreadsheet.
BadFile == [ok |-> FALSE, name |-> "notes.xlsx", sheet |-> NoTable]

Column(t, c) == [i \in 1..Len(t.rows) |-> t.rows[i][c]]

\* The rows of a sheet restricted to the columns cs.
Project(rows, cs) == [cols |-> cs, rows |-> [i \in 1..Len(rows) |-> [c \in cs |-> rows[i][c]]]]

----------------------------------------------------------------------------
(* load_data *)

\* The texts pd.read_excel reads as missing (keep_default_na).
default_na == {"", "NA", "N/A", "NaN", "null", "#N/A", "n/a", "nan", "NULL"}

read_cell(x) == IF x.k = "str" /\ x.s \in default_na THEN NaN ELSE x

read_excel(f) ==
    [cols |-> f.sheet.cols,
     rows |-> [i \in 1..Len(f.sheet.rows) |->
                 [c \in f.sheet.cols |-> read_cell(f.sheet.rows[i][c])]]]

\* pd.to_datetime(errors='coerce') of one cell: what is no date becomes NaT.
to_datetime(x) == IF x.k = "date" THEN x ELSE NaN

clean_dates(t) ==
    [cols |-> t.cols,
     rows |-> [i \in 1..Len(t.rows) |->
                 [c \in t.cols |-> IF c \in date_columns THEN to_datetime(t.rows[i][c])
                                   ELSE t.rows[i][c]]]]

Result(st, t) == [st |-> st, t |-> t]

\* The body of load_data: "df" with the table, "none" for None, "raised" when
\* pd.read_excel raises (the body catches nothing).
load_data_body(up, dsk) ==
    IF up # None THEN
        IF up.ok THEN Result("df", clean_dates(read_excel(up))) ELSE Result("raised", NoTable)
    ELSE IF dsk # None THEN
        IF dsk.ok THEN Result("df", clean_dates(read_excel(dsk))) ELSE Result("raised", NoTable)
    ELSE Result("none", NoTable)

\* The body calls pd.read_excel.
body_parses(up, dsk) == up # None \/ dsk # None

\* st.cache_data's key: the hash of the arguments (an upload's name and
\* bytes; nothing for the call without arguments).  The local file is no
\* argument.
cache_key(up) == up

cache_hit(c, up) == \E e \in c : e.key = cache_key(up)

cache_get(c, up) == (CHOOSE e \in c : e.key = cache_key(up)).val

\* @st.cache_data def load_data: a hit returns the stored value and the body
\* does not run; a miss runs the body and stores what it returns (a raised
\* exception is not stored).
load_data(c, up, dsk) ==
    IF cache_hit(c, up)
    THEN [res |-> cache_get(c, up), cache |-> c, parsed |-> FALSE]
    ELSE LET r == load_data_body(up, dsk) IN
         [res    |-> r,
          cache  |-> IF r.st = "raised" THEN c ELSE c \cup {[key |-> cache_key(up), val |-> r]},
          parsed |-> body_parses(up, dsk)]

----------------------------------------------------------------------------
(* Sidebar filters *)

\* The selectbox of column c is built, and selected_<c> bound, when c is a
\* column of df.
selectbox_built(t, c) == c \in t.cols

\* ['All'] + sorted(df[c].dropna().unique().tolist()); the selectbox returns
\* one of them, so their order does not matter here.
options(t, c) == {All} \cup {x \in {t.rows[i][c] : i \in 1..Len(t.rows)} : notna(x)}

\* What the three selectboxes can return in one run.
Selections(t) ==
    {s \in [FilterColumns -> {All, Unset} \cup UNION {options(t, c) : c \in FilterColumns \cap t.cols}] :
        \A c \in FilterColumns :
            IF selectbox_built(t, c) THEN s[c] \in options(t, c) ELSE s[c] = Unset}

\* pandas' elementwise ==: a missing cell equals nothing.
cell_eq(x, v) == notna(x) /\ notna(v) /\ x = v

\* A faulty keep_equal: the column is assigned the value instead of compared
\* with it.
keep_assigned(t, c, v) ==
    [cols |-> t.cols,
     rows |-> [i \in 1..Len(t.rows) |-> [d \in t.cols |-> IF d = c THEN v ELSE t.rows[i][d]]]]

\* filtered_df[filtered_df[c] == v]
keep_equal(t, c, v) == [cols |-> t.cols, rows |-> SelectSeq(t.rows, LAMBDA r : cell_eq(r[c], v))]

\* `'<c>' in df.columns and selected_<c> != 'All'`: the right operand is
\* read only when the left one is true.
selection_read(t, c) == c \in t.cols

filter_active(t, c, s) == c \in t.cols /\ s[c] # All

\* One `if` of "Apply filters".
filter_step(t, f, c, s) == IF filter_active(t, c, s) THEN keep_equal(f, c, s[c]) ELSE f

\* A faulty apply_filters: the Location step is left out.
apply_filters_without_location(t, s) == filter_step(t, filter_step(t, t, BU, s), DEPT, s)

\* "Apply filters": filtered_df = df.copy(), then the three steps in order.
apply_filters(t, s) == filter_step(t, filter_step(t, filter_step(t, t, BU, s), DEPT, s), LOC, s)

\* Reading a selected_<c> that no selectbox bound raises NameError; so does
\* subscripting a column the table lacks (KeyError).
filter_raises(t, s) ==
    \E c \in FilterColumns :
        \/ selection_read(t, c) /\ ~selectbox_built(t, c)
        \/ filter_active(t, c, s) /\ c \notin t.cols

----------------------------------------------------------------------------
(* Aggregators *)

\* The statuses the model's tables use that
\* .str.contains('Closed|Joined', case=False) matches.
contains_closed_or_joined(s) ==
    s \in {"Closed", "Joined", "closed - offer declined", "Foreclosed", "JOINED"}

\* len(filtered_df[filtered_df[STATUS].str.contains(..., na=False)])
closed_count(f) ==
    Len(SelectSeq(f.rows, LAMBDA r : r[STATUS].k = "str" /\ contains_closed_or_joined(r[STATUS].s)))

\* The texts of the model's tables that pd.to_numeric parses.
numeric_text(s) == s \in {"7", "12"}

number_of(s) == IF s = "7" THEN 7 ELSE IF s = "12" THEN 12 ELSE 0

\* pd.to_numeric(errors='coerce') of one cell.
to_numeric(x) ==
    IF x.k = "num" THEN x
    ELSE IF x.k = "str" /\ numeric_text(x.s) THEN Num(number_of(x.s))
    ELSE NaN

\* A faulty mean: it divides by the number of cells, missing ones included.
mean_over_all(xs) ==
    LET vals == SelectSeq(xs, notna) IN
    [sum |-> SumSeq([i \in 1..Len(vals) |-> vals[i].n]), count |-> Len(xs)]

\* Series.mean(): the sum and the count of the values that are not missing;
\* a count of 0 is NaN.
mean(xs) ==
    LET vals == SelectSeq(xs, notna) IN
    [sum |-> SumSeq([i \in 1..Len(vals) |-> vals[i].n]), count |-> Len(vals)]

mean_isna(m) == m.count = 0

\* f"{avg_tat:.1f}": the mean in tenths, rounded half to even (the means of
\* the model's tables that fall on a half are exact binary fractions).
format_1f(m) ==
    LET q == (10 * m.sum) \div m.count
        r == (10 * m.sum) % m.count
    IN  IF 2 * r < m.count THEN q
        ELSE IF 2 * r > m.count THEN q + 1
        ELSE IF q % 2 = 0 THEN q ELSE q + 1

\* A faulty avg_metric: the mean is formatted without the pd.isna test.
avg_metric_unchecked(m) ==
    IF ~mean_isna(m) THEN [kind |-> "value", tenths |-> format_1f(m)]
    ELSE [kind |-> "nan", tenths |-> 0]

\* f"{avg_tat:.1f}" if not pd.isna(avg_tat) else "N/A"
avg_metric(m) ==
    IF ~mean_isna(m) THEN [kind |-> "value", tenths |-> format_1f(m)]
    ELSE [kind |-> "N/A", tenths |-> 0]

\* Series.sum(): missing cells are skipped; the sum of nothing is 0.
sum(xs) ==
    LET vals == SelectSeq(xs, notna) IN SumSeq([i \in 1..Len(vals) |-> vals[i].n])

\* int(total) if not pd.isna(total) else 0: a sum is never missing.
sum_metric(total) == total

\* Series.dropna()
dropna(xs) == SelectSeq(xs, notna)

\* Series.value_counts(): the count of each value that is not missing, by
\* falling count, equal counts in the order of first appearance (the order
\* among equal counts changes no total).
value_counts(xs) ==
    LET vals  == dropna(xs)
        first == SelectSeq(Indices(vals), LAMBDA i : \A j \in 1..(i - 1) : vals[j] # vals[i])
        n     == Len(first)
        cnt(p) == Cardinality({j \in 1..Len(vals) : vals[j] = vals[first[p]]})
        rank(p) == 1 + Cardinality({q \in 1..n : cnt(q) > cnt(p) \/ (cnt(q) = cnt(p) /\ q < p)})
    IN  [r \in 1..n |-> LET p == CHOOSE p \in 1..n : rank(p) = r
                        IN  [label |-> vals[first[p]], count |-> cnt(p)]]

\* A faulty head: it keeps one entry too few.
head_one_short(xs, n) == SubSeq(xs, 1, IF Len(xs) < n - 1 THEN Len(xs) ELSE n - 1)

\* Series.head(n)
head(xs, n) == SubSeq(xs, 1, IF Len(xs) < n THEN Len(xs) ELSE n)

\* The head() limits of the four bar charts.
HeadBU     == 10
HeadLoc    == 10
HeadSource == 8
HeadDept   == 10

\* set_index(REQDATE).resample('ME').size() of the rows whose date is not
\* missing: one bucket per month from the first to the last, empty ones too.
resample_size(dates) ==
    LET ms == {dates[i].n : i \in 1..Len(dates)}
        lo == Min(ms)
        hi == Max(ms)
    IN  [b \in 1..(hi - lo + 1) |->
            [month |-> lo + b - 1,
             count |-> Cardinality({i \in 1..Len(dates) : dates[i].n = lo + b - 1})]]

\* "Requisition Trends Over Time": the chart, or st.info when no date is left.
trend(f) ==
    LET req_data_clean == SelectSeq(Column(f, REQDATE), notna) IN
    IF Len(req_data_clean) > 0
    THEN [kind |-> "chart", series |-> resample_size(req_data_clean)]
    ELSE [kind |-> "info", series |-> <<>>]

\* filtered_df.to_csv(index=False): a missing cell is written as the empty
\* field, every other cell as its text.
to_csv(f) ==
    [cols |-> f.cols,
     rows |-> [i \in 1..Len(f.rows) |->
                 [c \in f.cols |-> IF isna(f.rows[i][c]) THEN Str("") ELSE f.rows[i][c]]]]

----------------------------------------------------------------------------
(* The sections of the page, in the script's order *)

Sections == <<"closed", "avg_tat", "total_profiles", "interviewed", "status_counts",
              "bu_counts", "location_counts", "gender_counts", "req_over_time",
              "source_counts", "new_replace_counts", "tat_data", "joining_tat",
              "dept_counts">>

SectionNames == {Sections[i] : i \in 1..Len(Sections)}

\* The column a section subscripts.
section_column(a) ==
    CASE a = "closed"             -> STATUS
      [] a = "avg_tat"            -> TAT
      [] a = "total_profiles"     -> PROFILES
      [] a = "interviewed"        -> INTERVIEWED
      [] a = "status_counts"      -> STATUS
      [] a = "bu_counts"          -> BU
      [] a = "location_counts"    -> LOC
      [] a = "gender_counts"      -> GENDER
      [] a = "req_over_time"      -> REQDATE
      [] a = "source_counts"      -> SOURCE
      [] a = "new_replace_counts" -> NEWREPL
      [] a = "tat_data"           -> TAT
      [] a = "joining_tat"        -> JTAT
      [] a = "dept_counts"        -> DEPT

\* A faulty section_guard: the Closed Positions metric has lost its guard.
section_guard_closed_unguarded(a, f) == a = "closed" \/ section_column(a) \in f.cols

\* The section's `if '<column>' in filtered_df.columns`.
section_guard(a, f) == section_column(a) \in f.cols

\* A section that runs on a table without its column raises KeyError.
section_raises(a, f) == section_guard(a, f) /\ section_column(a) \notin f.cols

\* The column a section works on (nothing when the table lacks it).
col_or_empty(f, c) == IF c \in f.cols THEN Column(f, c) ELSE <<>>

counts_of(a, f) ==
    LET vc == value_counts(col_or_empty(f, section_column(a))) IN
    CASE a = "bu_counts"       -> head(vc, HeadBU)
      [] a = "location_counts" -> head(vc, HeadLoc)
      [] a = "source_counts"   -> head(vc, HeadSource)
      [] a = "dept_counts"     -> head(vc, HeadDept)
      [] OTHER                 -> vc

CountSections == {"status_counts", "bu_counts", "location_counts", "gender_counts",
                  "source_counts", "new_replace_counts", "dept_counts"}

NoOut ==
    [rendered |-> {}, total |-> 0, closed |-> 0,
     avg_tat |-> [sum |-> 0, count |-> 0], avg_metric |-> [kind |-> "none", tenths |-> 0],
     total_profiles |-> 0, interviewed |-> 0,
     counts |-> [a \in CountSections |-> <<>>],
     req_over_time |-> [kind |-> "none", series |-> <<>>],
     tat_data |-> <<>>, joining_tat |-> <<>>,
     table |-> NoTable, csv |-> NoTable, download |-> FALSE]

\* The sections that ran before the first one that raised (all of them when
\* none did).
sections_run(f) ==
    LET bad == {i \in 1..Len(Sections) : section_raises(Sections[i], f)}
        upto == IF bad = {} THEN Len(Sections) ELSE Min(bad) - 1
    IN  {Sections[i] : i \in 1..upto}

aggregators_raise(f) == \E a \in SectionNames : section_raises(a, f)

\* Everything the script shows once the table is filtered.
aggregate(f) ==
    LET ran == {a \in sections_run(f) : section_guard(a, f)}
        done == ~aggregators_raise(f)
        tat_numeric == [i \in 1..Len(f.rows) |-> to_numeric(col_or_empty(f, TAT)[i])]
        avg == IF "avg_tat" \in ran THEN mean(tat_numeric) ELSE [sum |-> 0, count |-> 0]
    IN  [rendered |-> ran,
         total |-> Len(f.rows),
         closed |-> IF "closed" \in ran THEN closed_count(f) ELSE 0,
         avg_tat |-> avg,
         avg_metric |-> IF "avg_tat" \in ran THEN avg_metric(avg) ELSE [kind |-> "none", tenths |-> 0],
         total_profiles |-> IF "total_profiles" \in ran THEN sum_metric(sum(Column(f, PROFILES))) ELSE 0,
         interviewed |-> IF "interviewed" \in ran THEN sum_metric(sum(Column(f, INTERVIEWED))) ELSE 0,
         counts |-> [a \in CountSections |-> IF a \in ran THEN counts_of(a, f) ELSE <<>>],
         req_over_time |-> IF "req_over_time" \in ran THEN trend(f) ELSE [kind |-> "none", series |-> <<>>],
         tat_data |-> IF "tat_data" \in ran THEN dropna(Column(f, TAT)) ELSE <<>>,
         joining_tat |-> IF "joining_tat" \in ran THEN dropna(Column(f, JTAT)) ELSE <<>>,
         table |-> IF done THEN f ELSE NoTable,
         csv |-> IF done THEN to_csv(f) ELSE NoTable,
         download |-> done]

----------------------------------------------------------------------------
(* The script *)

NoSel == [c \in FilterColumns |-> Unset]

NoSnap == [set |-> FALSE, up |-> None, disk |-> None, sel |-> NoSel, outcome |-> "none",
           filtered_df |-> NoTable, out |-> NoOut]

\* The run that just ended, as the observer records it.
ThisRun == [set |-> TRUE, up |-> uploaded', disk |-> disk', sel |-> sel', outcome |-> outcome',
            filtered_df |-> filtered_df', out |-> out']

\* The run ends before the sidebar: st.stop() after load_data returned None
\* ("halted"), or the exception load_data raised ("raised").
ends_at_loader(how) ==
    /\ outcome' = how
    /\ df' = NoTable
    /\ sel' = NoSel
    /\ filtered_df' = NoTable
    /\ out' = NoOut

\* The run from the sidebar on, on the loaded table t with the selection s.
pipeline(t, s) ==
    /\ df' = t
    /\ sel' = s
    /\ IF filter_raises(t, s)
       THEN /\ outcome' = "raised"
            /\ filtered_df' = NoTable
            /\ out' = NoOut
       ELSE LET f == apply_filters(t, s) IN
            /\ filtered_df' = f
            /\ out' = aggregate(f)
            /\ outcome' = IF aggregators_raise(f) THEN "raised" ELSE "done"

\* One run of the whole script, the upload widget holding up.
script(up) ==
    LET ld == load_data(cache, up, disk) IN
    /\ uploaded' = up
    /\ disk' = disk
    /\ tick' = ~tick
    /\ cache' = ld.cache
    /\ parsed' = ld.parsed
    /\ CASE ld.res.st = "raised" -> ends_at_loader("raised")
         [] ld.res.st = "none"   -> ends_at_loader("halted")
         [] OTHER                -> \E s \in Selections(ld.res.t) : pipeline(ld.res.t, s)

\* The observer keeps its record or replaces it by the run that just ended.
Observe == \E keep \in BOOLEAN : snap' = IF keep THEN ThisRun ELSE snap

\* The page is opened: the first run of the script.
Open == outcome = "none" /\ script(uploaded) /\ UNCHANGED snap

InitWith(d) ==
    /\ disk = d
    /\ uploaded = None
    /\ cache = {}
    /\ tick = FALSE
    /\ parsed = FALSE
    /\ outcome = "none"
    /\ df = NoTable
    /\ sel = NoSel
    /\ filtered_df = NoTable
    /\ out = NoOut
    /\ snap = NoSnap

\* A file is put into the upload widget; the script reruns.
UploadFile(f) == f # uploaded /\ script(f) /\ Observe

\* The upload widget is cleared; the script reruns.
ClearUpload == uploaded # None /\ script(None) /\ Observe

\* Any other interaction (a selectbox, a reload of the page): the script reruns.
Interact == script(uploaded) /\ Observe

\* datafile.xlsx is written or replaced beside the script.
WriteLocalFile(f) ==
    /\ f # disk
    /\ disk' = f
    /\ UNCHANGED <<uploaded, cache, tick, parsed, outcome, df, sel, filtered_df, out, snap>>

\* datafile.xlsx is removed.
DeleteLocalFile ==
    /\ disk # None
    /\ disk' = None
    /\ UNCHANGED <<uploaded, cache, tick, parsed, outcome, df, sel, filtered_df, out, snap>>

----------------------------------------------------------------------------
(* Spec: reruns, uploads and changes of the local file, on two small sheets *)

SheetA ==
    Project(<<[c \in {BU, PROFILES} |-> IF c = BU THEN Str("Sales") ELSE Num(3)],
              [c \in {BU, PROFILES} |-> IF c = BU THEN Str("Ops") ELSE NaN]>>, {BU, PROFILES})

SheetB ==
    Project(<<[c \in {BU, PROFILES} |-> IF c = BU THEN Str("Sales") ELSE Num(4)]>>, {BU, PROFILES})

LocalFiles == {Xlsx("datafile.xlsx", SheetA), Xlsx("datafile.xlsx", SheetB)}

Uploads == {Xlsx("january.xlsx", SheetA), Xlsx("february.xlsx", SheetB), BadFile}

Init == \E d \in LocalFiles \cup {None} : InitWith(d)

Next ==
    \/ \E f \in Uploads : UploadFile(f)
    \/ ClearUpload
    \/ Interact
    \/ \E f \in LocalFiles : WriteLocalFile(f)
    \/ DeleteLocalFile

Spec == Init /\ [][Next]_vars

----------------------------------------------------------------------------
(* SpecFilter: the page opened on every local file of a family of sheets   *)
(* with the three filter columns                                           *)

MaxRows == 3

FilterRowPool ==
    {r \in [{BU, DEPT, LOC, STATUS} ->
               {Str("Sales"), Str("NA"), Str("HR"), Str("IT"), Str("Pune"), Str("Delhi"), Str("Open")}] :
        /\ r[BU] \in {Str("Sales"), Str("NA")}
        /\ r[DEPT] \in {Str("HR"), Str("IT")}
        /\ r[LOC] \in {Str("Pune"), Str("Delhi")}
        /\ r[STATUS] = Str("Open")}

FilterFiles ==
    {Xlsx("datafile.xlsx", Project(rows, cs \cup {STATUS})) :
        rows \in SeqsUpTo(FilterRowPool, MaxRows), cs \in SUBSET FilterColumns}

InitFilter == \E d \in FilterFiles : InitWith(d)

NextFilter == Open

SpecFilter == InitFilter /\ [][NextFilter]_vars

----------------------------------------------------------------------------
(* SpecTat: the page opened on every sheet of TAT cells *)

MaxTatRows == 4

TatCells == {Num(5), Num(10), Str("7"), Str("TBD"), Str("NA"), NaN}

\* Current TAT holds xs, Joining TAT the same cells in reverse.
TatSheet(xs, cs) ==
    Project([i \in 1..Len(xs) |-> [c \in {TAT, JTAT} |-> IF c = TAT THEN xs[i] ELSE xs[Len(xs) + 1 - i]]], cs)

TatFiles ==
    {Xlsx("datafile.xlsx", TatSheet(xs, cs)) :
        xs \in SeqsUpTo(TatCells, MaxTatRows), cs \in {{TAT}, {JTAT}, {TAT, JTAT}}}

InitTat == \E d \in TatFiles : InitWith(d)

NextTat == Open

SpecTat == InitTat /\ [][NextTat]_vars

----------------------------------------------------------------------------
(* SpecColumns: the page opened on sheets with every subset of the columns *)

AllColumns == {BU, DEPT, LOC, STATUS, TAT, JTAT, PROFILES, INTERVIEWED, GENDER, SOURCE,
               NEWREPL, REQDATE}

Row(bu, dept, loc, status, tat, jtat, profiles, interviewed, gender, source, newrepl, reqdate) ==
    [c \in AllColumns |->
        CASE c = BU -> bu [] c = DEPT -> dept [] c = LOC -> loc [] c = STATUS -> status
          [] c = TAT -> tat [] c = JTAT -> jtat [] c = PROFILES -> profiles
          [] c = INTERVIEWED -> interviewed [] c = GENDER -> gender [] c = SOURCE -> source
          [] c = NEWREPL -> newrepl [] c = REQDATE -> reqdate]

Row1 == Row(Str("Sales"), Str("HR"), Str("Pune"), Str("Closed"), Num(5), Num(12), Num(3), Num(1),
            Str("F"), Str("Referral"), Str("New"), Date(1))
Row2 == Row(Str("Ops"), Str("IT"), Str("Pune"), Str("Open"), Str("TBD"), NaN, NaN, Num(2),
            Str("M"), Str("Portal"), Str("Replacement"), Str("TBD"))
Row3 == Row(NaN, Str("IT"), Str("NA"), Str("Joined"), Num(10), Str("12"), Num(4), NaN,
            NaN, Str("Referral"), Str("New"), Date(3))

ColumnSheets == {<<>>, <<Row1>>, <<Row1, Row2>>, <<Row3, Row2>>, <<Row2, Row1, Row3>>}

ColumnFiles ==
    {Xlsx("datafile.xlsx", Project(rows, cs)) : rows \in ColumnSheets, cs \in SUBSET AllColumns}

InitColumns == \E d \in ColumnFiles : InitWith(d)

NextColumns == Open

SpecColumns == InitColumns /\ [][NextColumns]_vars

----------------------------------------------------------------------------
(* SpecCounts: the page opened on sheets one of whose category columns     *)
(* holds many distinct values                                              *)

MaxDistinct == 11
MaxExtra == 1

Labels == <<"c01", "c02", "c03", "c04", "c05", "c06", "c07", "c08", "c09", "c10", "c11", "c12",
            "c13">>

CountColumns == {section_column(a) : a \in CountSections}

\* d distinct labels, then the extra cells, in the column `wide`; every other
\* category column alternates between two values.
CountSheet(wide, d, extra) ==
    LET cells == [i \in 1..d |-> Str(Labels[i])] \o extra IN
    Project([i \in 1..Len(cells) |->
                [c \in CountColumns |-> IF c = wide THEN cells[i]
                                        ELSE IF i % 2 = 1 THEN Str("x") ELSE Str("y")]],
            CountColumns)

CountFiles ==
    {Xlsx("datafile.xlsx", CountSheet(wide, d, extra)) :
        wide \in CountColumns, d \in 0..MaxDistinct, extra \in SeqsUpTo({Str("c01"), NaN}, MaxExtra)}

InitCounts == \E d \in CountFiles : InitWith(d)

NextCounts == Open

SpecCounts == InitCounts /\ [][NextCounts]_vars

----------------------------------------------------------------------------
(* Claims *)

\* The row r of table t meets every constraint the selection s puts on a
\* filter column that t has.
Meets(t, r, s) == \A c \in FilterColumns : (c \in t.cols /\ s[c] # All) => r[c] = s[c]

\* The rows of t that meet s, by position.
Kept(t, s) == {i \in 1..Len(t.rows) : Meets(t, t.rows[i], s)}

\* C1: the filtered table consists of exactly the rows of the loaded table
\* whose cell equals the selected value in every filter column that is
\* present and not set to "All", in the loaded table's order, cells unchanged.
C1_FilterExact ==
    outcome = "done" =>
        /\ filtered_df.cols = df.cols
        /\ Len(filtered_df.rows) = Cardinality(Kept(df, sel))
        /\ \A i \in Kept(df, sel) :
              filtered_df.rows[Cardinality({h \in Kept(df, sel) : h <= i})] = df.rows[i]

\* Two filters are active, and of three rows the first and the third, which
\* differ, are kept.
C1_Witness ==
    /\ outcome = "done"
    /\ sel[BU] \notin {All, Unset}
    /\ sel[DEPT] \notin {All, Unset}
    /\ Len(df.rows) = 3
    /\ Len(filtered_df.rows) = 2
    /\ filtered_df.rows[1] = df.rows[1]
    /\ filtered_df.rows[2] = df.rows[3]
    /\ df.rows[1] # df.rows[3]

\* C2: the filtered table holds only rows of the loaded table, with the same
\* columns; filtering it again with the same selection changes nothing; and
\* the loaded table is still what load_data returned for the local file.
C2_SubsetIdempotent ==
    outcome = "done" =>
        /\ filtered_df.cols = df.cols
        /\ Len(filtered_df.rows) <= Len(df.rows)
        /\ \A j \in 1..Len(filtered_df.rows) : \E i \in 1..Len(df.rows) : filtered_df.rows[j] = df.rows[i]
        /\ apply_filters(filtered_df, sel) = filtered_df
        /\ df = clean_dates(read_excel(disk))
        /\ cache = {[key |-> cache_key(uploaded), val |-> Result("df", df)]}

\* A selection has dropped some rows and kept others.
C2_Witness ==
    /\ outcome = "done"
    /\ \E c \in FilterColumns : sel[c] \notin {All, Unset}
    /\ 0 < Len(filtered_df.rows)
    /\ Len(filtered_df.rows) < Len(df.rows)

\* A run has just ended (every run flips tick; no other step does).
RunEnds == tick' # tick

\* C3: a run with no upload and no local file halts at the loader: load_data
\* returned None, nothing is filtered, aggregated or exported.
C3_NoInputHalts ==
    [][(RunEnds /\ uploaded' = None /\ disk' = None) =>
          (outcome' = "halted" /\ filtered_df' = NoTable /\ out' = NoOut)]_vars

\* C9: a run on an upload that is no spreadsheet halts at the loader as a
\* run without any file does.
C9_BadUploadHalts ==
    [][(RunEnds /\ uploaded' = BadFile) =>
          (outcome' = "halted" /\ filtered_df' = NoTable /\ out' = NoOut)]_vars

\* The run that just ended had the inputs and the selection of the run the
\* observer recorded earlier.
RepeatsRecordedRun ==
    /\ RunEnds
    /\ snap.set
    /\ snap.up = uploaded'
    /\ snap.disk = disk'
    /\ snap.sel = sel'

\* C10 (results): a run with the inputs and the selection of an earlier run
\* ends as that run did, with the same filtered table and the same results.
RerunsAgree ==
    [][RepeatsRecordedRun =>
          (outcome' = snap.outcome /\ filtered_df' = snap.filtered_df /\ out' = snap.out)]_vars

\* C10: a run with the inputs and the selection of an earlier run ends as
\* that run did, and does not parse the file again.
C10_RerunsIdempotent ==
    [][RepeatsRecordedRun =>
          (/\ outcome' = snap.outcome
           /\ filtered_df' = snap.filtered_df
           /\ out' = snap.out
           /\ ~parsed')]_vars

\* A cell that is a number, or text that reads as one.
IsNumeric(x) == x.k = "num" \/ (x.k = "str" /\ numeric_text(x.s))

ValueOf(x) == IF x.k = "num" THEN x.n ELSE number_of(x.s)

Abs(n) == IF n < 0 THEN -n ELSE n

\* C7: the average cycle time is the mean of exactly the numeric cells of
\* Current TAT in the filtered table (their sum over their number); the
\* metric shows it to one decimal, and "N/A" when there is no numeric cell.
C7_MeanOfNumericCells ==
    (outcome = "done" /\ TAT \in filtered_df.cols) =>
        LET cells == Column(filtered_df, TAT)
            n     == Cardinality({i \in 1..Len(cells) : IsNumeric(cells[i])})
            total == SumSeq([i \in 1..Len(cells) |-> IF IsNumeric(cells[i]) THEN ValueOf(cells[i]) ELSE 0])
        IN  /\ "avg_tat" \in out.rendered
            /\ out.avg_tat = [sum |-> total, count |-> n]
            /\ IF n = 0 THEN out.avg_metric.kind = "N/A"
               ELSE /\ out.avg_metric.kind = "value"
                    /\ 2 * Abs(10 * total - out.avg_metric.tenths * n) <= n

\* The sheet's Current TAT is [5, "NA", 10, blank] and the metric shows 7.5.
C7_Witness ==
    /\ outcome = "done"
    /\ TAT \in disk.sheet.cols
    /\ Column(disk.sheet, TAT) = <<Num(5), Str("NA"), Num(10), NaN>>
    /\ out.avg_tat = [sum |-> 15, count |-> 2]
    /\ out.avg_metric = [kind |-> "value", tenths |-> 75]

\* C8: the value lists of the two TAT distributions are the numbers of their
\* columns, every other cell dropped, and the run ends without raising.
C8_OnlyNumbersCharted ==
    outcome \in {"done", "raised"} =>
        /\ outcome = "done"
        /\ TAT \in df.cols =>
              out.tat_data = SelectSeq(Column(filtered_df, TAT), LAMBDA x : x.k = "num")
        /\ JTAT \in df.cols =>
              out.joining_tat = SelectSeq(Column(filtered_df, JTAT), LAMBDA x : x.k = "num")

Limit(a) ==
    CASE a = "bu_counts"       -> HeadBU
      [] a = "location_counts" -> HeadLoc
      [] a = "source_counts"   -> HeadSource
      [] a = "dept_counts"     -> HeadDept
      [] OTHER                 -> 0

CountTotal(a) == SumSeq([i \in 1..Len(out.counts[a]) |-> out.counts[a][i].count])

DistinctValues(a) == {filtered_df.rows[i][section_column(a)] : i \in 1..Len(filtered_df.rows)}

NoMissing(a) == \A i \in 1..Len(filtered_df.rows) : notna(filtered_df.rows[i][section_column(a)])

\* C5 as stated: for every category section whose column has no missing
\* value, the counts add up to the number of rows of the filtered table.
C5_CountsCoverRows ==
    outcome = "done" =>
        \A a \in CountSections :
            (a \in out.rendered /\ NoMissing(a)) => CountTotal(a) = Len(filtered_df.rows)

\* C5 as amended: the counts add up to the number of rows for the sections
\* without a limit, and for a limited section when its column has no more
\* distinct values than the limit; beyond the limit the section holds
\* `limit` categories and its counts add up to less.
C5_CountsCoverRowsUpToLimit ==
    outcome = "done" =>
        \A a \in CountSections :
            (a \in out.rendered /\ NoMissing(a)) =>
                IF Limit(a) = 0 \/ Cardinality(DistinctValues(a)) <= Limit(a)
                THEN CountTotal(a) = Len(filtered_df.rows)
                ELSE /\ Len(out.counts[a]) = Limit(a)
                     /\ CountTotal(a) < Len(filtered_df.rows)

\* Nine candidate sources, none missing: eight are charted.
C5_Witness ==
    /\ outcome = "done"
    /\ "source_counts" \in out.rendered
    /\ NoMissing("source_counts")
    /\ Cardinality(DistinctValues("source_counts")) = 9
    /\ Len(out.counts["source_counts"]) = 8
    /\ CountTotal("source_counts") < Len(filtered_df.rows)

====
